---- MODULE Spec2Model ----
(***************************************************************************)
(* The LOD / transition controller of the procedural shoe model            *)
(* (client/src/models/ShoeModel.tsx, production build: the <primitive>     *)
(* holding the LOD container is mounted under the shoe group).             *)
(*                                                                         *)
(* Numbers: progress and opacity are fixed-point, a value n stands for     *)
(* n / Unit; a frame's elapsed time delta is counted in 1 / Unit seconds.  *)
(* Positions are <<x, y, z>> tuples, <<>> stands for "no such uniform".    *)
(***************************************************************************)
EXTENDS Integers, Sequences, FiniteSets, TLC

\* ------------------------------------------------------------------ bounds
Unit == 8
MaxDelta == 4
MaxDistance == 12     \* camera distances 0 .. MaxDistance, in scene units
DemoDelay == 6        \* the 30 s inactivity delay, in ticks of 5 s
MaxQuantity == 3      \* addToCart stops raising a quantity here

\* --------------------------------------------------------------- constants
Rate == 2

ShoeTypes == {"high-top", "low-top", "running"}
MaterialTypes == {"leather", "nubuck", "glint", "knit"}
MeshMaterials == {"base", "accent", "sole", "lace", "logo"}

DefaultLightPosition == <<5, 8, 5>>
DefaultViewPosition == <<0, 0, 5>>
NoUniform == <<>>

\* Inputs a frame can see: camera world positions and scene contents.
CameraPositions == {<<0, 0, 5>>, <<0, 2, 8>>}
Deltas == 0 .. MaxDelta
Light(kind, intensity, pos) == [kind |-> kind, intensity |-> intensity, pos |-> pos]
Scenes ==
  { <<>>,
    <<Light("point", 3, <<-3, 4, 1>>)>>,
    <<Light("spot", 0, <<-3, 4, 1>>)>>,
    <<Light("directional", 1, <<2, 6, 2>>), Light("spot", 1, <<-3, 4, 1>>)>>,
    <<Light("directional", 1, <<2, 6, 2>>), Light("spot", 2, <<-3, 4, 1>>)>> }

VARIABLES
  shoeType,            \* prop: the requested silhouette
  currentShoeType,     \* React state: the silhouette the LOD container is built for
  transitionRef,       \* [progress, from, to]
  material,            \* prop: the material label
  useAdvancedShaders,  \* prop
  mats,                \* the five materials referenced by the meshes of the shoe group
  lightPosRef,
  cameraPosRef,
  frameSteps,          \* the writes of the last frame callback, in program order
  last,                \* the last operation and the state it started from
  liveGeometry,        \* which LOD containers hold geometry that was not destroyed
  demo,                \* App: isDemoMode of the store, the inactivity timeout
  cart,                \* store: the cart entries, in order
  call                 \* the last call of a factory function: name, arguments, result

vars == <<shoeType, currentShoeType, transitionRef, material, useAdvancedShaders,
          mats, lightPosRef, cameraPosRef, frameSteps, last, liveGeometry,
          demo, cart, call>>

shoeModel == <<shoeType, currentShoeType, transitionRef, material,
               useAdvancedShaders, mats, lightPosRef, cameraPosRef,
               frameSteps, last, liveGeometry>>

Min(a, b) == IF a < b THEN a ELSE b
Abs(a) == IF a < 0 THEN -a ELSE a

\* ------------------------------------------------------- material factory
\* Without advanced shaders the component calls createShoeMaterial, which
\* returns a MeshPhysicalMaterial: no ShaderMaterial, hence "standard".
ShaderKind(materialType, advanced) ==
  IF ~advanced THEN "standard"
  ELSE CASE materialType = "leather" -> "anisotropic"
         [] materialType = "nubuck" -> "subsurface"
         [] materialType = "glint" -> "iridescent"
         [] materialType = "knit" -> "anisotropic"
         [] OTHER -> "standard"

NewMaterial(kind) ==
  [kind |-> kind,
   opacity |-> Unit,
   transparent |-> FALSE,
   lightPosition |-> IF kind \in {"anisotropic", "subsurface"}
                     THEN DefaultLightPosition ELSE NoUniform,
   viewPosition |-> IF kind = "standard" THEN NoUniform ELSE DefaultViewPosition]

BuildMaterials(materialType, advanced) ==
  [m \in MeshMaterials |->
     IF m \in {"base", "accent"}
     THEN NewMaterial(ShaderKind(materialType, advanced))
     ELSE NewMaterial("standard")]

\* -------------------------------------------------- transition controller
InitialTransition(s) == [progress |-> Unit, from |-> s, to |-> s]

\* Variant: the effect forgets to restart the progress.
ShoeTypeEffectKeepsProgress(requested, mounted, tr) ==
  IF requested # mounted
  THEN [progress |-> tr.progress, from |-> mounted, to |-> requested]
  ELSE tr

ShoeTypeEffect(requested, mounted, tr) ==
  IF requested # mounted
  THEN [progress |-> 0, from |-> mounted, to |-> requested]
  ELSE tr

\* Variant: the guard reads <= 1 instead of < 1.
TransitionActiveAtOne(tr) == tr.progress <= Unit

TransitionActive(tr) == tr.progress < Unit

\* Variant: the progress is not clamped to 1.
NextProgressUnclamped(progress, delta) == progress + delta * Rate

NextProgress(progress, delta) == Min(Unit, progress + delta * Rate)

\* Variant: the distance from the midpoint is not doubled.
OpacityNoDouble(progress) == Unit - (Abs(2 * progress - Unit) \div 2)

Opacity(progress) == Unit - Abs(2 * progress - Unit)

\* Variant: only the shared base and accent materials are written.
WriteOpacitySharedOnly(ms, opacity) ==
  [m \in MeshMaterials |->
     IF m \in {"base", "accent"}
     THEN [ms[m] EXCEPT !.opacity = opacity, !.transparent = opacity < Unit]
     ELSE ms[m]]

WriteOpacity(ms, opacity) ==
  [m \in MeshMaterials |->
     [ms[m] EXCEPT !.opacity = opacity, !.transparent = opacity < Unit]]

\* Variant: the swap happens at a quarter of the cycle.
MidpointSwapEarly(tr, mounted) == 4 * tr.progress >= Unit /\ mounted # tr.to

\* Variant: the swap waits for a progress above 1, which never comes.
MidpointSwapPastEnd(tr, mounted) == tr.progress > Unit /\ mounted # tr.to

\* Variant: the swap tests progress = 0.5 instead of progress >= 0.5.
MidpointSwapExact(tr, mounted) == 2 * tr.progress = Unit /\ mounted # tr.to

MidpointSwap(tr, mounted) == 2 * tr.progress >= Unit /\ mounted # tr.to

\* ------------------------------------------------- dynamic uniform update
RECURSIVE ScanLights(_, _, _, _)
ScanLights(scene, i, maxIntensity, brightest) ==
  IF i > Len(scene) THEN brightest
  ELSE IF scene[i].kind \in {"spot", "directional"} /\ scene[i].intensity > maxIntensity
       THEN ScanLights(scene, i + 1, scene[i].intensity, i)
       ELSE ScanLights(scene, i + 1, maxIntensity, brightest)

BrightestLight(scene) == ScanLights(scene, 1, 0, 0)

\* Variant: a scan that finds no light falls back to the default position.
LightPosAfterScanReset(scene, lightPos) ==
  IF BrightestLight(scene) # 0
  THEN scene[BrightestLight(scene)].pos ELSE DefaultLightPosition

LightPosAfterScan(scene, lightPos) ==
  IF BrightestLight(scene) # 0 THEN scene[BrightestLight(scene)].pos ELSE lightPos

WriteUniforms(ms, lightPos, cameraPos) ==
  [m \in MeshMaterials |->
     IF m \in {"base", "accent"} /\ ms[m].kind # "standard"
     THEN [ms[m] EXCEPT
             !.lightPosition = IF @ # NoUniform THEN lightPos ELSE @,
             !.viewPosition = IF @ # NoUniform THEN cameraPos ELSE @]
     ELSE ms[m]]

\* Variant: the uniforms are written before the transition block runs.
FrameOrderUniformFirst(active, swap, advanced) ==
  <<"lod">>
  \o (IF advanced THEN <<"uniform">> ELSE <<>>)
  \o (IF active THEN <<"progress", "opacity">> ELSE <<>>)
  \o (IF swap THEN <<"swap">> ELSE <<>>)

FrameOrder(active, swap, advanced) ==
  <<"lod">>
  \o (IF active THEN <<"progress", "opacity">> ELSE <<>>)
  \o (IF swap THEN <<"swap">> ELSE <<>>)
  \o (IF advanced THEN <<"uniform">> ELSE <<>>)

\* ------------------------------------------- material factory, in full
\* Scalars are in hundredths: 40 stands for 0.4, 300 for 3.0.  A material is
\* a record; a call that throws yields ThrowsTypeError instead.
AnyMaterialTypes == MaterialTypes \cup {"suede"}   \* one label outside the union
Colors == {"#E1B75A", "#1a1a1a", "#ffffff"}
ThrowsTypeError == [error |-> "TypeError"]

\* options.name ?? default
Option(options, name, default) ==
  IF name \in DOMAIN options THEN options[name] ELSE default

\* The uniforms each fragment shader declares.
FragmentUniforms(shader) ==
  CASE shader = "iridescent" ->
         {"baseColor", "iridescentIntensity", "iridescentScale", "metalness",
          "roughness", "viewPosition"}
    [] shader = "subsurface" ->
         {"baseColor", "subsurfaceColor", "subsurfaceIntensity", "thickness",
          "lightPosition", "viewPosition", "distortion", "power", "scale"}
    [] shader = "anisotropic" ->
         {"baseColor", "specularColor", "roughnessX", "roughnessY",
          "specularIntensity", "lightPosition", "viewPosition",
          "anisotropicRotation"}

\* Variant: the iridescent material is built without its viewPosition uniform.
CreateIridescentMaterialNoView(baseColor, options) ==
  [type |-> "ShaderMaterial", shader |-> "iridescent",
   uniforms |->
     [baseColor |-> baseColor,
      iridescentIntensity |-> Option(options, "intensity", 50),
      iridescentScale |-> Option(options, "scale", 200),
      metalness |-> Option(options, "metalness", 80),
      roughness |-> Option(options, "roughness", 30)]]

CreateIridescentMaterial(baseColor, options) ==
  [type |-> "ShaderMaterial", shader |-> "iridescent",
   uniforms |->
     [baseColor |-> baseColor,
      iridescentIntensity |-> Option(options, "intensity", 50),
      iridescentScale |-> Option(options, "scale", 200),
      metalness |-> Option(options, "metalness", 80),
      roughness |-> Option(options, "roughness", 30),
      viewPosition |-> DefaultViewPosition]]

CreateSubsurfaceMaterial(baseColor, options) ==
  [type |-> "ShaderMaterial", shader |-> "subsurface",
   uniforms |->
     [baseColor |-> baseColor,
      subsurfaceColor |-> Option(options, "subsurfaceColor", "#ffccaa"),
      subsurfaceIntensity |-> Option(options, "intensity", 70),
      thickness |-> Option(options, "thickness", 50),
      lightPosition |-> Option(options, "lightPosition", DefaultLightPosition),
      viewPosition |-> DefaultViewPosition,
      distortion |-> Option(options, "distortion", 30),
      power |-> Option(options, "power", 200),
      scale |-> Option(options, "scale", 100)]]

CreateAnisotropicMaterial(baseColor, options) ==
  [type |-> "ShaderMaterial", shader |-> "anisotropic",
   uniforms |->
     [baseColor |-> baseColor,
      specularColor |-> Option(options, "specularColor", "#ffffff"),
      roughnessX |-> Option(options, "roughnessX", 30),
      roughnessY |-> Option(options, "roughnessY", 60),
      specularIntensity |-> Option(options, "intensity", 100),
      lightPosition |-> Option(options, "lightPosition", DefaultLightPosition),
      viewPosition |-> DefaultViewPosition,
      anisotropicRotation |-> Option(options, "rotation", 0)]]

\* The table inside createStandardMaterial.
StandardConfigs ==
  [leather |-> [roughness |-> 60, metalness |-> 10, envMapIntensity |-> 40],
   nubuck |-> [roughness |-> 90, metalness |-> 0, envMapIntensity |-> 20],
   glint |-> [roughness |-> 20, metalness |-> 90, envMapIntensity |-> 100],
   knit |-> [roughness |-> 70, metalness |-> 0, envMapIntensity |-> 30]]

\* What new THREE.MeshStandardMaterial({}) holds.
MeshStandardDefaults ==
  [color |-> "#ffffff", roughness |-> 100, metalness |-> 0, envMapIntensity |-> 100]

\* Variant: the glint preset gives the house gold a higher roughness.
CreateStandardMaterialTinted(materialType, color) ==
  IF materialType \in DOMAIN StandardConfigs
  THEN [type |-> "MeshStandardMaterial", color |-> color,
        roughness |-> IF color = "#E1B75A"
                      THEN 30 ELSE StandardConfigs[materialType].roughness,
        metalness |-> StandardConfigs[materialType].metalness,
        envMapIntensity |-> StandardConfigs[materialType].envMapIntensity]
  ELSE [type |-> "MeshStandardMaterial"] @@ MeshStandardDefaults

\* materialConfigs[materialType] is undefined for a label outside the table,
\* and spreading undefined adds nothing: the material keeps its defaults.
CreateStandardMaterial(materialType, color) ==
  IF materialType \in DOMAIN StandardConfigs
  THEN [type |-> "MeshStandardMaterial", color |-> color,
        roughness |-> StandardConfigs[materialType].roughness,
        metalness |-> StandardConfigs[materialType].metalness,
        envMapIntensity |-> StandardConfigs[materialType].envMapIntensity]
  ELSE [type |-> "MeshStandardMaterial"] @@ MeshStandardDefaults

\* Variant: knit is routed to the subsurface shader.
CreateAdvancedShoeMaterialKnitSubsurface(materialType, color, advanced) ==
  IF ~advanced THEN CreateStandardMaterial(materialType, color)
  ELSE CASE materialType = "leather" ->
              CreateAnisotropicMaterial(color,
                [roughnessX |-> 40, roughnessY |-> 60, intensity |-> 50, rotation |-> 25])
         [] materialType = "nubuck" ->
              CreateSubsurfaceMaterial(color,
                [subsurfaceColor |-> <<color, 120>>, intensity |-> 40,
                 thickness |-> 30, power |-> 150])
         [] materialType = "glint" ->
              CreateIridescentMaterial(color,
                [intensity |-> 70, scale |-> 300, metalness |-> 90, roughness |-> 20])
         [] materialType = "knit" ->
              CreateSubsurfaceMaterial(color, [intensity |-> 30, thickness |-> 30])
         [] OTHER -> CreateStandardMaterial(materialType, color)

CreateAdvancedShoeMaterial(materialType, color, advanced) ==
  IF ~advanced THEN CreateStandardMaterial(materialType, color)
  ELSE CASE materialType = "leather" ->
              CreateAnisotropicMaterial(color,
                [roughnessX |-> 40, roughnessY |-> 60, intensity |-> 50, rotation |-> 25])
         [] materialType = "nubuck" ->
              CreateSubsurfaceMaterial(color,
                [subsurfaceColor |-> <<color, 120>>, intensity |-> 40,
                 thickness |-> 30, power |-> 150])
         [] materialType = "glint" ->
              CreateIridescentMaterial(color,
                [intensity |-> 70, scale |-> 300, metalness |-> 90, roughness |-> 20])
         [] materialType = "knit" ->
              CreateAnisotropicMaterial(color,
                [roughnessX |-> 60, roughnessY |-> 20, intensity |-> 30, rotation |-> 50])
         [] OTHER -> CreateStandardMaterial(materialType, color)

\* MATERIAL_CONFIGS of materials.ts.
MATERIAL_CONFIGS ==
  [leather |-> [roughness |-> 40, metalness |-> 10, clearcoat |-> 30,
                clearcoatRoughness |-> 30],
   nubuck |-> [roughness |-> 90, metalness |-> 0, sheen |-> 50, sheenRoughness |-> 80],
   glint |-> [roughness |-> 20, metalness |-> 80, clearcoat |-> 50,
              clearcoatRoughness |-> 10, anisotropy |-> 70],
   knit |-> [roughness |-> 70, metalness |-> 0, sheen |-> 80, sheenRoughness |-> 60]]

\* config is undefined for a label outside the table, and reading
\* config.roughness then throws.
CreateShoeMaterial(materialType, baseColor) ==
  IF materialType \notin DOMAIN MATERIAL_CONFIGS THEN ThrowsTypeError
  ELSE LET config == MATERIAL_CONFIGS[materialType]
       IN [type |-> "MeshPhysicalMaterial", color |-> baseColor,
           roughness |-> config.roughness, metalness |-> config.metalness,
           envMapIntensity |-> 150,
           clearcoat |-> Option(config, "clearcoat", 0),
           sheen |-> Option(config, "sheen", 0)]

\* The baseMaterial / accentMaterial memo of the component.
ShoeModelMaterial(materialType, color, advanced) ==
  IF advanced
  THEN CreateAdvancedShoeMaterial(materialType, color, TRUE)
  ELSE CreateShoeMaterial(materialType, color)

\* -------------------------------------------------------- geometry factory
\* A geometry is the tuple of segment counts handed to its primitive; a
\* geometry set is a record of geometries by part name.
LODLevels == {"high", "medium", "low"}
AnyShoeTypes == ShoeTypes \cup {"boot"}   \* a value outside the ShoeType union

\* Variant: the medium tier is tessellated finer than the high tier.
DetailFineMedium(lodLevel) ==
  IF lodLevel = "high" THEN 32 ELSE IF lodLevel = "medium" THEN 64 ELSE 8

Detail(lodLevel) ==
  IF lodLevel = "high" THEN 32 ELSE IF lodLevel = "medium" THEN 16 ELSE 8

HighOr(lodLevel, high, other) == IF lodLevel = "high" THEN high ELSE other

CommonGeometries(lodLevel) ==
  [body |-> <<Detail(lodLevel) \div 2, Detail(lodLevel)>>,
   toe |-> <<Detail(lodLevel), Detail(lodLevel) \div 2>>,
   heel |-> <<Detail(lodLevel), Detail(lodLevel) \div 2>>,
   sole |-> <<HighOr(lodLevel, 4, 2), 1, HighOr(lodLevel, 2, 1)>>,
   heelTab |-> <<1, HighOr(lodLevel, 2, 1), 1>>]

CreateHighTopGeometry(lodLevel) ==
  CommonGeometries(lodLevel) @@
  [midsole |-> <<HighOr(lodLevel, 4, 2), 1, HighOr(lodLevel, 2, 1)>>,
   laceArea |-> <<HighOr(lodLevel, 3, 1), HighOr(lodLevel, 3, 1), 1>>,
   tongue |-> <<HighOr(lodLevel, 2, 1), HighOr(lodLevel, 3, 1), 1>>,
   collar |-> <<Detail(lodLevel) \div 4, Detail(lodLevel)>>]

CreateLowTopGeometry(lodLevel) ==
  CommonGeometries(lodLevel) @@
  [midsole |-> <<HighOr(lodLevel, 4, 2), 1, HighOr(lodLevel, 2, 1)>>,
   laceArea |-> <<HighOr(lodLevel, 3, 1), 1, 1>>,
   tongue |-> <<HighOr(lodLevel, 2, 1), HighOr(lodLevel, 2, 1), 1>>,
   sidePanel |-> <<HighOr(lodLevel, 2, 1), HighOr(lodLevel, 2, 1), 1>>]

CreateRunningShoeGeometry(lodLevel) ==
  CommonGeometries(lodLevel) @@
  [midsole |-> <<HighOr(lodLevel, 2, 1), Detail(lodLevel)>>,
   laceArea |-> <<HighOr(lodLevel, 3, 1), 1, 1>>,
   tongue |-> <<HighOr(lodLevel, 2, 1), HighOr(lodLevel, 2, 1), 1>>,
   sidePanel |-> <<HighOr(lodLevel, 3, 1), HighOr(lodLevel, 2, 1), 1>>]

\* Variant: the default branch of the switch builds the high-top.
CreateShoeGeometriesDefaultHighTop(type, lodLevel) ==
  CASE type = "low-top" -> CreateLowTopGeometry(lodLevel)
    [] type = "running" -> CreateRunningShoeGeometry(lodLevel)
    [] OTHER -> CreateHighTopGeometry(lodLevel)

CreateShoeGeometries(type, lodLevel) ==
  CASE type = "high-top" -> CreateHighTopGeometry(lodLevel)
    [] type = "low-top" -> CreateLowTopGeometry(lodLevel)
    [] type = "running" -> CreateRunningShoeGeometry(lodLevel)
    [] OTHER -> CreateLowTopGeometry(lodLevel)

\* ------------------------------------------------------- LOD level builder
Mesh(part, geometry, mat) == [part |-> part, geometry |-> geometry, material |-> mat]

OptionalMeshes(geoms) ==
  (IF "collar" \in DOMAIN geoms
   THEN <<Mesh("collar", geoms.collar, "accent")>> ELSE <<>>)
  \o (IF "sidePanel" \in DOMAIN geoms
      THEN <<Mesh("sidePanel", geoms.sidePanel, "base"),
             Mesh("sidePanel", geoms.sidePanel, "base")>>
      ELSE <<>>)

LaceCount(type) == IF type = "high-top" THEN 7 ELSE IF type = "running" THEN 4 ELSE 5

LaceMeshes(type, addDetails) ==
  IF addDetails
  THEN [i \in 1 .. LaceCount(type) |-> Mesh("lace", <<8>>, "lace")]
  ELSE <<>>

\* Variant: the logo is added to every level.
HasLogoAlways(lodLevel, addDetails) == TRUE

HasLogo(lodLevel, addDetails) == addDetails \/ lodLevel = "medium"

LogoMeshes(lodLevel, addDetails) ==
  IF HasLogo(lodLevel, addDetails)
  THEN <<Mesh("logo", <<1, 1, 1>>, "logo")>> ELSE <<>>

BuildLODLevel(type, lodLevel, addDetails) ==
  LET geoms == CreateShoeGeometries(type, lodLevel)
  IN <<Mesh("body", geoms.body, "base"),
       Mesh("toe", geoms.toe, "base"),
       Mesh("heel", geoms.heel, "base"),
       Mesh("sole", geoms.sole, "sole"),
       Mesh("midsole", geoms.midsole, "accent"),
       Mesh("laceArea", geoms.laceArea, "accent"),
       Mesh("tongue", geoms.tongue, "base"),
       Mesh("heelTab", geoms.heelTab, "accent")>>
     \o OptionalMeshes(geoms)
     \o LaceMeshes(type, addDetails)
     \o LogoMeshes(lodLevel, addDetails)

\* Variant: the medium and low levels are attached at each other's distance.
LodLevelsSwapped(type) ==
  <<[lodLevel |-> "high", distance |-> 0, object |-> BuildLODLevel(type, "high", TRUE)],
    [lodLevel |-> "low", distance |-> 5, object |-> BuildLODLevel(type, "low", FALSE)],
    [lodLevel |-> "medium", distance |-> 10,
     object |-> BuildLODLevel(type, "medium", FALSE)]>>

\* The three lod.addLevel calls, in the order of their distances.
LodLevels(type) ==
  <<[lodLevel |-> "high", distance |-> 0, object |-> BuildLODLevel(type, "high", TRUE)],
    [lodLevel |-> "medium", distance |-> 5,
     object |-> BuildLODLevel(type, "medium", FALSE)],
    [lodLevel |-> "low", distance |-> 10, object |-> BuildLODLevel(type, "low", FALSE)]>>

\* lodRef.current.update(camera), the update of THREE.LOD: the first level is
\* shown, and each further level whose distance the camera has reached takes
\* over from the one before it.  The result is the set of visible levels.
RECURSIVE LodScan(_, _, _, _)
LodScan(levels, i, distance, visible) ==
  IF i > Len(levels) \/ distance < levels[i].distance THEN visible
  ELSE LodScan(levels, i + 1, distance,
               (visible \ {levels[i - 1].lodLevel}) \cup {levels[i].lodLevel})

LodUpdate(levels, distance) == LodScan(levels, 2, distance, {levels[1].lodLevel})

\* ----------------------------------------------------------- LOD container
\* The lodGroup memo builds a new THREE.LOD with three fresh geometry sets
\* whenever the mounted silhouette or a material changes.  The container it
\* replaces is dropped from the scene graph; nothing calls dispose() on its
\* geometries, so they stay allocated.
RebuildLodGroup(live) == live \cup {"superseded"}

\* ---------------------------------------------------------------- demo mode
\* App arms one timeout of DemoDelay; timeout = Spent once it has run without
\* being armed again.  idle is the time since the last activity event (since
\* mount before the first one), counted up to MaxIdle; by names the last step.
ActivityEvents == {"mousedown", "mousemove", "keypress", "scroll", "touchstart"}
Spent == -1
MaxIdle == 2 * DemoDelay

DemoMounted ==
  [isDemoMode |-> FALSE, timeout |-> DemoDelay, idle |-> 0, by |-> "mount"]

\* Variant: resetTimeout leaves a running timeout as it is.
ResetTimeoutKeepsRunning(timeout) == IF timeout = Spent THEN DemoDelay ELSE timeout

\* clearTimeout, then setTimeout(.., 30000)
ResetTimeout(timeout) == DemoDelay

\* Time passes while the timeout is pending or spent; a due timeout runs
\* before more time passes.
Tick ==
  /\ demo.timeout # 0
  /\ demo' = [demo EXCEPT !.timeout = IF @ = Spent THEN Spent ELSE @ - 1,
                          !.idle = Min(MaxIdle, @ + 1),
                          !.by = "tick"]
  /\ UNCHANGED <<shoeModel, cart, call>>

\* The timeout callback.  If it switches demo mode on, the effect runs again
\* (its dependency isDemoMode changed): cleanup, then resetTimeout.
TimeoutFires ==
  /\ demo.timeout = 0
  /\ demo' = IF ~demo.isDemoMode
             THEN [demo EXCEPT !.isDemoMode = TRUE,
                               !.timeout = ResetTimeout(@),
                               !.by = "timeout"]
             ELSE [demo EXCEPT !.timeout = Spent, !.by = "timeout"]
  /\ UNCHANGED <<shoeModel, cart, call>>

\* One of the five document events: the listener is resetTimeout.
Activity(event) ==
  /\ demo' = [demo EXCEPT !.timeout = ResetTimeout(@), !.idle = 0, !.by = event]
  /\ UNCHANGED <<shoeModel, cart, call>>

\* The demo button of the navigation bar: setDemoMode(!isDemoMode); the
\* effect runs again.
ToggleDemoMode ==
  /\ demo' = [demo EXCEPT !.isDemoMode = ~@,
                          !.timeout = ResetTimeout(@),
                          !.by = "toggle"]
  /\ UNCHANGED <<shoeModel, cart, call>>

\* --------------------------------------------------------------------- cart
\* A ShoeConfig without its name and price, which no cart operation reads.
ShoeIds == {"luxsole-emerald-runner", "luxsole-forest-elite", "luxsole-gold-prestige"}

Customizations ==
  { [baseColor |-> "#1FA07A", accentColor |-> "#E1B75A", material |-> "leather"],
    [baseColor |-> "#E1B75A", accentColor |-> "#072A1E", material |-> "glint"] }

ShoeConfig(id, custom) ==
  [id |-> id, baseColor |-> custom.baseColor, accentColor |-> custom.accentColor,
   material |-> custom.material]

Shoes == {ShoeConfig(id, custom) : id \in ShoeIds, custom \in Customizations}
Quantities == -1 .. MaxQuantity

\* { ...shoe, quantity: 1 }
CartItem(shoe) == shoe @@ [quantity |-> 1]

InCart(c, id) == \E i \in 1 .. Len(c) : c[i].id = id

AddedToCart(c, shoe) ==
  IF InCart(c, shoe.id)
  THEN [i \in 1 .. Len(c) |->
          IF c[i].id = shoe.id THEN [c[i] EXCEPT !.quantity = @ + 1] ELSE c[i]]
  ELSE Append(c, CartItem(shoe))

KeepsOthers(item, id) == item.id # id

RemovedFromCart(c, id) == SelectSeq(c, LAMBDA item : KeepsOthers(item, id))

\* Variant: a quantity of 0 or less is stored like any other.
UpdatedQuantityStoresAny(c, id, quantity) ==
  [i \in 1 .. Len(c) |->
     IF c[i].id = id THEN [c[i] EXCEPT !.quantity = quantity] ELSE c[i]]

UpdatedQuantity(c, id, quantity) ==
  IF quantity <= 0 THEN RemovedFromCart(c, id)
  ELSE [i \in 1 .. Len(c) |->
          IF c[i].id = id THEN [c[i] EXCEPT !.quantity = quantity] ELSE c[i]]

\* The store's quantity has no upper limit; the model stops adding at
\* MaxQuantity.
AddToCart(shoe) ==
  /\ \A i \in 1 .. Len(cart) : cart[i].id = shoe.id => cart[i].quantity < MaxQuantity
  /\ cart' = AddedToCart(cart, shoe)
  /\ call' = [fn |-> "addToCart", args |-> <<shoe>>, result |-> <<>>]
  /\ UNCHANGED <<shoeModel, demo>>

RemoveFromCart(id) ==
  /\ cart' = RemovedFromCart(cart, id)
  /\ call' = [fn |-> "removeFromCart", args |-> <<id>>, result |-> <<>>]
  /\ UNCHANGED <<shoeModel, demo>>

UpdateQuantity(id, quantity) ==
  /\ cart' = UpdatedQuantity(cart, id, quantity)
  /\ call' = [fn |-> "updateQuantity", args |-> <<id, quantity>>, result |-> <<>>]
  /\ UNCHANGED <<shoeModel, demo>>

\* ------------------------------------------------------------------ state
NoCall == [fn |-> "none", args |-> <<>>, result |-> <<>>]

\* What the last operation was, the progress and mounted silhouette it
\* started from, its elapsed time, and the progress its own update left.
History(op, progress, mounted, delta, written) ==
  [op |-> op, progress |-> progress, mounted |-> mounted, delta |-> delta,
   written |-> written]

Init ==
  /\ shoeType \in ShoeTypes
  /\ currentShoeType = shoeType
  /\ transitionRef = InitialTransition(shoeType)
  /\ material \in MaterialTypes
  /\ useAdvancedShaders \in BOOLEAN
  /\ mats = BuildMaterials(material, useAdvancedShaders)
  /\ lightPosRef = DefaultLightPosition
  /\ cameraPosRef = DefaultViewPosition
  /\ frameSteps = <<>>
  /\ last = History("mount", transitionRef.progress, currentShoeType, 0,
                     transitionRef.progress)
  /\ liveGeometry = {"current"}
  /\ demo = DemoMounted
  /\ cart = <<>>
  /\ call = NoCall

\* The parent re-renders the component with another shoeType prop.
SetShoeType(s) ==
  /\ s # shoeType
  /\ shoeType' = s
  /\ transitionRef' = ShoeTypeEffect(s, currentShoeType, transitionRef)
  /\ last' = History("shoeType", transitionRef.progress, currentShoeType, 0,
                      transitionRef.progress)
  /\ UNCHANGED <<currentShoeType, material, useAdvancedShaders, mats,
                 lightPosRef, cameraPosRef, frameSteps, liveGeometry, demo,
                 cart, call>>

\* The parent re-renders the component with another material prop: the base
\* and accent materials are created anew, the other three are kept, and the
\* LOD container is built anew around them.
SetMaterial(label) ==
  /\ label # material
  /\ material' = label
  /\ mats' = [m \in MeshMaterials |->
                IF m \in {"base", "accent"}
                THEN NewMaterial(ShaderKind(label, useAdvancedShaders))
                ELSE mats[m]]
  /\ last' = History("material", transitionRef.progress, currentShoeType, 0,
                      transitionRef.progress)
  /\ liveGeometry' = RebuildLodGroup(liveGeometry)
  /\ UNCHANGED <<shoeType, currentShoeType, transitionRef, useAdvancedShaders,
                 lightPosRef, cameraPosRef, frameSteps, demo, cart, call>>

\* One frame callback, followed by the re-render (and its effect) that a
\* setCurrentShoeType call of the callback causes.
Frame(delta, cameraPos, scene) ==
  LET active == TransitionActive(transitionRef)
      tr1 == IF active
             THEN [transitionRef EXCEPT !.progress = NextProgress(@, delta)]
             ELSE transitionRef
      mats1 == IF active THEN WriteOpacity(mats, Opacity(tr1.progress)) ELSE mats
      swap == active /\ MidpointSwap(tr1, currentShoeType)
      mounted1 == IF swap THEN tr1.to ELSE currentShoeType
      lightPos1 == IF useAdvancedShaders
                   THEN LightPosAfterScan(scene, lightPosRef) ELSE lightPosRef
      cameraPos1 == IF useAdvancedShaders THEN cameraPos ELSE cameraPosRef
      mats2 == IF useAdvancedShaders
               THEN WriteUniforms(mats1, lightPos1, cameraPos1) ELSE mats1
  IN /\ currentShoeType' = mounted1
     /\ transitionRef' = IF swap THEN ShoeTypeEffect(shoeType, mounted1, tr1) ELSE tr1
     /\ mats' = mats2
     /\ lightPosRef' = lightPos1
     /\ cameraPosRef' = cameraPos1
     /\ frameSteps' = FrameOrder(active, swap, useAdvancedShaders)
     /\ last' = History("frame", transitionRef.progress, currentShoeType, delta,
                         tr1.progress)
     /\ liveGeometry' = IF swap THEN RebuildLodGroup(liveGeometry) ELSE liveGeometry
     /\ UNCHANGED <<shoeType, material, useAdvancedShaders, demo, cart, call>>

Next ==
  \/ \E s \in ShoeTypes : SetShoeType(s)
  \/ \E label \in MaterialTypes : SetMaterial(label)
  \/ \E delta \in Deltas, cameraPos \in CameraPositions, scene \in Scenes :
       Frame(delta, cameraPos, scene)

Spec == Init /\ [][Next]_vars

\* Liveness.  Neither the camera nor the scene reaches the transition state
\* (transitionRef, currentShoeType), so the specification with fairness
\* fixes them: every frame sees the default camera and an empty scene.  The
\* render loop keeps delivering frames whose elapsed time is positive.
QuietFrame(delta) == Frame(delta, DefaultViewPosition, <<>>)

PositiveFrame == \E delta \in Deltas \ {0} : QuietFrame(delta)

FairNext ==
  \/ \E s \in ShoeTypes : SetShoeType(s)
  \/ \E label \in MaterialTypes : SetMaterial(label)
  \/ \E delta \in Deltas : QuietFrame(delta)

FairSpec == Init /\ [][FairNext]_vars /\ WF_vars(PositiveFrame)

\* The factories.  They are pure functions of their arguments, so their
\* specification leaves the mounted component as it is after construction
\* and records one call at a time: function, arguments and result.
Distances == 0 .. MaxDistance

controller == <<shoeType, currentShoeType, transitionRef, material,
                useAdvancedShaders, mats, lightPosRef, cameraPosRef,
                frameSteps, last, liveGeometry, demo, cart>>

Called(fn, args, result) == [fn |-> fn, args |-> args, result |-> result]

CallCreateShoeGeometries(type, lodLevel) ==
  /\ call' = Called("createShoeGeometries", <<type, lodLevel>>,
                    CreateShoeGeometries(type, lodLevel))
  /\ UNCHANGED controller

CallLodGroup(type) ==
  /\ call' = Called("lodGroup", <<type>>, LodLevels(type))
  /\ UNCHANGED controller

CallLodUpdate(type, distance) ==
  /\ call' = Called("lod.update", <<type, distance>>,
                    LodUpdate(LodLevels(type), distance))
  /\ UNCHANGED controller

CallCreateAdvancedShoeMaterial(materialType, color, advanced) ==
  /\ call' = Called("createAdvancedShoeMaterial", <<materialType, color, advanced>>,
                    CreateAdvancedShoeMaterial(materialType, color, advanced))
  /\ UNCHANGED controller

CallCreateShoeMaterial(materialType, color) ==
  /\ call' = Called("createShoeMaterial", <<materialType, color>>,
                    CreateShoeMaterial(materialType, color))
  /\ UNCHANGED controller

CallShoeModelMaterial(materialType, color, advanced) ==
  /\ call' = Called("ShoeModel.baseMaterial", <<materialType, color, advanced>>,
                    ShoeModelMaterial(materialType, color, advanced))
  /\ UNCHANGED controller

FactoryInit ==
  /\ Init
  /\ shoeType = "low-top"
  /\ material = "glint"
  /\ useAdvancedShaders

FactoryNext ==
  \/ \E type \in AnyShoeTypes, lodLevel \in LODLevels :
       CallCreateShoeGeometries(type, lodLevel)
  \/ \E type \in ShoeTypes : CallLodGroup(type)
  \/ \E type \in ShoeTypes, distance \in Distances : CallLodUpdate(type, distance)
  \/ \E materialType \in AnyMaterialTypes, color \in Colors, advanced \in BOOLEAN :
       CallCreateAdvancedShoeMaterial(materialType, color, advanced)
  \/ \E materialType \in AnyMaterialTypes, color \in Colors :
       CallCreateShoeMaterial(materialType, color)
  \/ \E materialType \in AnyMaterialTypes, color \in Colors, advanced \in BOOLEAN :
       CallShoeModelMaterial(materialType, color, advanced)

FactorySpec == FactoryInit /\ [][FactoryNext]_vars

\* The dynamic uniform update.  It reads the camera, the scene, lightPosRef
\* and the base and accent materials, none of which the transition state
\* reaches, so its specification leaves the requested silhouette alone: the
\* material changes and frames arrive with every camera and scene.
LightNext ==
  \/ \E label \in MaterialTypes : SetMaterial(label)
  \/ \E delta \in Deltas, cameraPos \in CameraPositions, scene \in Scenes :
       Frame(delta, cameraPos, scene)

LightSpec == Init /\ [][LightNext]_vars

\* The inactivity timer of App, next to the demo button.
DemoNext ==
  \/ Tick
  \/ TimeoutFires
  \/ \E event \in ActivityEvents : Activity(event)
  \/ ToggleDemoMode

DemoSpec == FactoryInit /\ [][DemoNext]_vars

\* The cart of the store.
CartNext ==
  \/ \E shoe \in Shoes : AddToCart(shoe)
  \/ \E id \in ShoeIds : RemoveFromCart(id)
  \/ \E id \in ShoeIds, quantity \in Quantities : UpdateQuantity(id, quantity)

CartSpec == FactoryInit /\ [][CartNext]_vars

TypeOK ==
  /\ shoeType \in ShoeTypes
  /\ currentShoeType \in ShoeTypes
  /\ transitionRef \in [progress : 0 .. Unit, from : ShoeTypes, to : ShoeTypes]
  /\ material \in MaterialTypes
  /\ useAdvancedShaders \in BOOLEAN

\* =================================================================== claims
BelowHalf(p) == 2 * p < Unit

MaterialFlags(ms) == [m \in MeshMaterials |-> <<ms[m].opacity, ms[m].transparent>>]

\* C1: when the controller is stable on s (progress = 1, s mounted) and the
\* requested silhouette changes to s' # s, the transition state becomes
\* {progress: 0, from: s, to: s'}.
C1_StableRequestStartsTransition ==
  [][ (transitionRef.progress = Unit /\ shoeType' # shoeType
         /\ shoeType' # currentShoeType)
      => transitionRef' = [progress |-> 0, from |-> currentShoeType, to |-> shoeType']
    ]_vars

C1_Witness ==
  /\ last.op = "shoeType"
  /\ last.progress = Unit
  /\ transitionRef = [progress |-> 0, from |-> last.mounted, to |-> shoeType]
  /\ shoeType # last.mounted

\* C2: in a frame of a running transition the mounted silhouette is `from`
\* when the progress the frame computes is below 0.5, and it is `to` from
\* the first frame on whose computed progress is at least 0.5.
C2_SwapAtMidpoint ==
  [][ (last'.op = "frame" /\ TransitionActive(transitionRef))
      => IF BelowHalf(last'.written)
         THEN currentShoeType' = transitionRef.from
         ELSE currentShoeType' = transitionRef.to
    ]_vars

C2_Witness ==
  /\ last.op = "frame"
  /\ BelowHalf(last.progress)
  /\ ~BelowHalf(last.written)
  /\ currentShoeType # last.mounted
  /\ currentShoeType = transitionRef.to

\* C3: while the requested silhouette s stays what it is and frames with
\* positive elapsed time keep arriving, a running transition towards s
\* ends with progress = 1 and s mounted.
C3_TransitionCompletes ==
  \A s \in ShoeTypes :
    (shoeType = s /\ transitionRef.to = s /\ TransitionActive(transitionRef))
      ~> (shoeType # s
          \/ (transitionRef.progress = Unit /\ transitionRef.to = s
              /\ currentShoeType = s))

C3_Witness ==
  /\ last.op = "frame"
  /\ last.progress < Unit
  /\ last.delta > 0
  /\ transitionRef.progress = Unit
  /\ transitionRef.to = shoeType
  /\ transitionRef.from # shoeType
  /\ currentShoeType = shoeType

\* C4: every change of the requested silhouette resets the transition state
\* to progress 0, from = the silhouette mounted at that moment, to = the new
\* request.
C4_EveryRequestResets ==
  [][ shoeType' # shoeType
      => transitionRef' = [progress |-> 0, from |-> currentShoeType, to |-> shoeType']
    ]_vars

\* C5: a change of the requested silhouette while a transition is running
\* with progress below 0.5 restarts the cycle at 0 and leaves the mounted
\* silhouette alone, and the mounted silhouette changes only in a frame whose
\* computed progress is at least 0.5.
C5_InterruptedCycleRestarts ==
  [][ /\ (shoeType' # shoeType /\ TransitionActive(transitionRef)
            /\ BelowHalf(transitionRef.progress))
         => (transitionRef'.progress = 0 /\ currentShoeType' = currentShoeType)
      /\ (currentShoeType' # currentShoeType)
         => (last'.op = "frame" /\ ~BelowHalf(last'.written))
    ]_vars

\* C6: the progress never decreases between two consecutive states that
\* have the same `to`.
C6_ProgressMonotoneWhileSameTo ==
  [][ transitionRef'.to = transitionRef.to
      => transitionRef'.progress >= transitionRef.progress ]_vars

\* C7: the opacity a transition frame writes is the triangular function of
\* the progress it computed: 0 at progress 0 and 1, 1 at progress 0.5,
\* within [0, 1] throughout.
C7_TriangularOpacity ==
  (last.op = "frame" /\ last.progress < Unit)
  => \A m \in MeshMaterials :
       LET o == mats[m].opacity
           w == last.written
       IN /\ o \in 0 .. Unit
          /\ (w \in {0, Unit} => o = 0)
          /\ (2 * w = Unit => o = Unit)
          /\ o = IF BelowHalf(w) THEN 2 * w ELSE 2 * (Unit - w)

C7_Witness ==
  /\ last.op = "frame"
  /\ last.progress < Unit
  /\ 2 * last.written = Unit
  /\ \A m \in MeshMaterials : mats[m].opacity = Unit

\* C8: the progress lies in [0, 1] in every reachable state.
C8_ProgressInUnitInterval == transitionRef.progress \in 0 .. Unit

C8_Witness ==
  /\ last.op = "frame"
  /\ last.progress < Unit
  /\ last.progress + last.delta * Rate > Unit
  /\ last.written = Unit

StepRank(step) ==
  CASE step = "lod" -> 1
    [] step = "progress" -> 2
    [] step = "opacity" -> 3
    [] step = "swap" -> 4
    [] step = "uniform" -> 5

C10_FrameStepOrder ==
  \A i, j \in 1 .. Len(frameSteps) :
    i < j => StepRank(frameSteps[i]) < StepRank(frameSteps[j])

C10_Witness == frameSteps = <<"lod", "progress", "opacity", "swap", "uniform">>

\* C11: after every transition frame each of the five mesh materials (base,
\* accent, sole, lace, logo) carries the opacity written in that frame, with
\* transparent = TRUE exactly when that opacity is below 1.
C11_TransparentIffBelowOne ==
  (last.op = "frame" /\ last.progress < Unit)
    => \A m \in MeshMaterials :
         /\ mats[m].opacity = Opacity(last.written)
         /\ mats[m].transparent = (mats[m].opacity < Unit)

\* A frame in the middle of a cycle lands on the midpoint: opacity 1 is
\* written and every material is opaque again.
C11_Witness ==
  /\ last.op = "frame"
  /\ last.progress \in 1 .. Unit - 1
  /\ 2 * last.written = Unit
  /\ \A m \in MeshMaterials : mats[m].opacity = Unit /\ ~mats[m].transparent

\* C16: after any sequence of rebuilds of the LOD container only the
\* geometry of the current container is live.
C16_OnlyCurrentGeometryLive == liveGeometry = {"current"}

Parts(object) == {object[i].part : i \in 1 .. Len(object)}

\* C13: for every silhouette, every LOD level holds laceArea, tongue and
\* heelTab meshes; lace strands exist only in the high level; the logo exists
\* in the high and medium levels and not in the low level.
C13_DetailByTier ==
  call.fn = "lodGroup"
    => \A i \in 1 .. Len(call.result) :
         LET level == call.result[i]
         IN /\ {"laceArea", "tongue", "heelTab"} \subseteq Parts(level.object)
            /\ "lace" \in Parts(level.object) <=> level.lodLevel = "high"
            /\ "logo" \in Parts(level.object) <=> level.lodLevel \in {"high", "medium"}

C13_Witness ==
  /\ call.fn = "lodGroup"
  /\ call.args = <<"running">>
  /\ "lace" \in Parts(call.result[1].object)
  /\ "logo" \in Parts(call.result[2].object)
  /\ "lace" \notin Parts(call.result[2].object)
  /\ "logo" \notin Parts(call.result[3].object)

\* Every segment count of geometry a is at least the one of geometry b.
NoFewerSegments(a, b) ==
  Len(a) = Len(b) /\ \A k \in 1 .. Len(a) : a[k] >= b[k]

\* Level fine has no fewer meshes than level coarse, and every part of
\* coarse is in fine with no fewer segments.
NoCoarser(fine, coarse) ==
  /\ Len(fine) >= Len(coarse)
  /\ \A j \in 1 .. Len(coarse) :
       \E i \in 1 .. Len(fine) :
         /\ fine[i].part = coarse[j].part
         /\ NoFewerSegments(fine[i].geometry, coarse[j].geometry)

\* C14: for every silhouette the number of meshes of a level and the segment
\* count of every part do not increase from high to medium to low, and the
\* base detail (the radial segments of the body) is 32, 16 and 8.
C14_DetailNonIncreasing ==
  call.fn = "lodGroup"
    => /\ NoCoarser(call.result[1].object, call.result[2].object)
       /\ NoCoarser(call.result[2].object, call.result[3].object)
       /\ <<call.result[1].object[1].geometry[2],
            call.result[2].object[1].geometry[2],
            call.result[3].object[1].geometry[2]>> = <<32, 16, 8>>

C14_Witness ==
  /\ call.fn = "lodGroup"
  /\ call.args = <<"high-top">>
  /\ Len(call.result[1].object) = 17
  /\ Len(call.result[2].object) = 10
  /\ Len(call.result[3].object) = 9
  /\ call.result[1].object[1].part = "body"

\* C15: createShoeGeometries with a silhouette outside {high-top, low-top,
\* running} returns, for every tier, the low-top geometry set (sidePanel
\* present, collar absent) and raises no error.
C15_UnknownSilhouetteIsLowTop ==
  (call.fn = "createShoeGeometries" /\ call.args[1] \notin ShoeTypes)
    => /\ call.result = CreateLowTopGeometry(call.args[2])
       /\ "sidePanel" \in DOMAIN call.result
       /\ "collar" \notin DOMAIN call.result
       /\ "error" \notin DOMAIN call.result

C15_Witness ==
  /\ call.fn = "createShoeGeometries"
  /\ call.args = <<"boot", "medium">>
  /\ call.result.sidePanel = <<1, 1, 1>>

\* C17: with advanced shaders the factory routes leather to the anisotropic
\* shader with roughnessX 0.4 and roughnessY 0.6, knit to the anisotropic
\* shader with roughnessX 0.6 and roughnessY 0.2, nubuck to the subsurface
\* shader with power 1.5 and thickness 0.3, and glint to the iridescent
\* shader with scale 3.0 and metalness 0.9, whatever the color.
C17_AdvancedRouting ==
  (call.fn = "createAdvancedShoeMaterial" /\ call.args[3])
    => LET label == call.args[1]
           shader == call.result.shader
           u == call.result.uniforms
       IN /\ label = "leather"
               => shader = "anisotropic" /\ u.roughnessX = 40 /\ u.roughnessY = 60
          /\ label = "knit"
               => shader = "anisotropic" /\ u.roughnessX = 60 /\ u.roughnessY = 20
          /\ label = "nubuck"
               => shader = "subsurface" /\ u.power = 150 /\ u.thickness = 30
          /\ label = "glint"
               => shader = "iridescent" /\ u.iridescentScale = 300 /\ u.metalness = 90
          /\ label \in MaterialTypes => u.baseColor = call.args[2]

C17_Witness ==
  /\ call.fn = "createAdvancedShoeMaterial"
  /\ call.args = <<"knit", "#1a1a1a", TRUE>>
  /\ call.result.shader = "anisotropic"
  /\ call.result.uniforms.roughnessY = 20

\* C18: the base material of a low-top glint shoe of base color #E1B75A is an
\* iridescent shader material with metalness 0.9, roughness 0.2 and scale 3.0
\* with advanced shaders, and a standard PBR material with roughness 0.2 and
\* metalness 0.9 without them.
C18_GlintBaseMaterial ==
  (call.fn = "ShoeModel.baseMaterial" /\ call.args[1] = "glint"
     /\ call.args[2] = "#E1B75A")
    => IF call.args[3]
       THEN /\ call.result.type = "ShaderMaterial"
            /\ call.result.shader = "iridescent"
            /\ call.result.uniforms.metalness = 90
            /\ call.result.uniforms.roughness = 20
            /\ call.result.uniforms.iridescentScale = 300
       ELSE /\ call.result.type \in {"MeshStandardMaterial", "MeshPhysicalMaterial"}
            /\ call.result.roughness = 20
            /\ call.result.metalness = 90

\* C19: for every material label, one outside the four known labels
\* included, and for both values of useAdvancedShaders, building a base or
\* accent material of the shoe yields a material (a standard one for an
\* unknown label) and raises no error.
C19_EveryLabelYieldsMaterial ==
  call.fn = "ShoeModel.baseMaterial"
    => /\ "error" \notin DOMAIN call.result
       /\ call.args[1] \notin MaterialTypes
            => call.result.type \in {"MeshStandardMaterial", "MeshPhysicalMaterial"}

\* The call of the state, made again with another color.
CalledAgain(color) ==
  CASE call.fn = "createShoeMaterial" -> CreateShoeMaterial(call.args[1], color)
    [] call.fn = "createAdvancedShoeMaterial" ->
         CreateAdvancedShoeMaterial(call.args[1], color, call.args[3])
    [] call.fn = "ShoeModel.baseMaterial" ->
         ShoeModelMaterial(call.args[1], color, call.args[3])

NonShaderCall ==
  \/ call.fn = "createShoeMaterial"
  \/ call.fn \in {"createAdvancedShoeMaterial", "ShoeModel.baseMaterial"}
       /\ ~call.args[3]

\* C20: a material created without advanced shaders has a roughness and a
\* metalness fixed by the label: the same call made again, with the same or
\* with any other color, returns the same two values.
C20_PresetIndependentOfColor ==
  (NonShaderCall /\ "error" \notin DOMAIN call.result)
    => \A color \in Colors :
         /\ CalledAgain(color).roughness = call.result.roughness
         /\ CalledAgain(color).metalness = call.result.metalness

C20_Witness ==
  /\ call.fn = "createAdvancedShoeMaterial"
  /\ call.args = <<"glint", "#E1B75A", FALSE>>
  /\ call.result.roughness = 20
  /\ call.result.metalness = 90
  /\ CalledAgain("#ffffff").color # call.result.color

LitMaterials(ms) ==
  {m \in {"base", "accent"} : ms[m].kind # "standard" /\ ms[m].lightPosition # NoUniform}

\* C22: after every frame with advanced shaders whose scene holds a light,
\* the lightPosition uniform of each custom-shader base and accent material
\* that has one is the position of a light whose intensity is maximal among
\* all lights of the scene, and the viewPosition uniform is the camera's
\* world position.
C22_BrightestOfAllLights ==
  [][ \A delta \in Deltas, cameraPos \in CameraPositions, scene \in Scenes :
        (useAdvancedShaders /\ scene # <<>> /\ Frame(delta, cameraPos, scene))
          => \A m \in LitMaterials(mats') :
               /\ mats'[m].viewPosition = cameraPos
               /\ \E i \in 1 .. Len(scene) :
                    /\ mats'[m].lightPosition = scene[i].pos
                    /\ \A j \in 1 .. Len(scene) :
                         scene[j].intensity <= scene[i].intensity
    ]_vars

\* The spot and directional lights of positive intensity, and the first of
\* the brightest among them in traversal order.
Qualifying(scene) ==
  {i \in 1 .. Len(scene) :
     scene[i].kind \in {"spot", "directional"} /\ scene[i].intensity > 0}

FirstBrightest(scene) ==
  CHOOSE i \in Qualifying(scene) :
    \A j \in Qualifying(scene) :
      /\ scene[j].intensity <= scene[i].intensity
      /\ scene[j].intensity = scene[i].intensity => i <= j

C23_DemoAfterInactivity ==
  [][ /\ (demo'.by = "timeout" /\ demo'.isDemoMode # demo.isDemoMode)
           => (~demo.isDemoMode /\ demo'.isDemoMode /\ demo.idle >= DemoDelay)
      /\ demo'.by \in ActivityEvents
           => (demo'.timeout = DemoDelay /\ demo'.isDemoMode = demo.isDemoMode)
      /\ demo'.by = "tick" => demo'.isDemoMode = demo.isDemoMode
    ]_vars

\* The timeout has switched demo mode on exactly one full delay after the
\* last activity event (or the mount), and the effect has armed it again.
C23_Witness ==
  /\ demo.by = "timeout"
  /\ demo.isDemoMode
  /\ demo.idle = DemoDelay
  /\ demo.timeout = DemoDelay

\* C28: after addToCart(shoe) the cart holds an entry with the shoe's id
\* whose baseColor, accentColor and material are those of the shoe just
\* added, also when the id was in the cart with another customization.
C28_CartHoldsAddedCustomization ==
  [][ \A shoe \in Shoes :
        AddToCart(shoe)
          => \E i \in 1 .. Len(cart') :
               /\ cart'[i].id = shoe.id
               /\ cart'[i].baseColor = shoe.baseColor
               /\ cart'[i].accentColor = shoe.accentColor
               /\ cart'[i].material = shoe.material
    ]_vars

Entries(c) == {c[i] : i \in 1 .. Len(c)}

\* C29: after any sequence of addToCart, removeFromCart and updateQuantity
\* calls no two entries of the cart share an id and every quantity is at
\* least 1; updateQuantity with a quantity of 0 or less removes the entry;
\* removing or updating an id that is not in the cart leaves the entries as
\* they are.
C29_CartWellFormed ==
  [][ /\ \A i, j \in 1 .. Len(cart') : cart'[i].id = cart'[j].id => i = j
      /\ \A i \in 1 .. Len(cart') : cart'[i].quantity >= 1
      /\ \A id \in ShoeIds, quantity \in Quantities :
           UpdateQuantity(id, quantity)
             => /\ quantity <= 0
                     => /\ ~InCart(cart', id)
                        /\ Entries(cart') = {item \in Entries(cart) : item.id # id}
                /\ ~InCart(cart, id) => cart' = cart
      /\ \A id \in ShoeIds :
           (RemoveFromCart(id) /\ ~InCart(cart, id)) => cart' = cart
    ]_vars

\* updateQuantity(id, 0) has just removed the first of two entries.
C29_Witness ==
  /\ call.fn = "updateQuantity"
  /\ call.args = <<"luxsole-emerald-runner", 0>>
  /\ Len(cart) = 1
  /\ cart[1].id = "luxsole-gold-prestige"
  /\ cart[1].quantity = MaxQuantity

\* C24: whenever progress = 1, every mesh material of the shoe has opacity 1
\* and transparent = FALSE.
C24_OpaqueWhenStable ==
  transitionRef.progress = Unit
    => \A m \in MeshMaterials : mats[m].opacity = Unit /\ ~mats[m].transparent

\* C25: every change of the mounted silhouette sets it to the silhouette
\* requested at that moment.
C25_SwapMountsRequested ==
  [][ currentShoeType' # currentShoeType => currentShoeType' = shoeType' ]_vars

\* C26: if the requested silhouette stays s from some point on, and frames
\* with positive elapsed time keep arriving, then from some point on the
\* mounted silhouette is s.
C26_MountedFollowsRequest ==
  \A s \in ShoeTypes : <>[](shoeType = s) => <>[](currentShoeType = s)

\* The last frame of a cycle ended with the requested silhouette mounted
\* since before that frame.
C26_Witness ==
  /\ last.op = "frame"
  /\ last.progress < Unit
  /\ last.mounted = shoeType
  /\ currentShoeType = shoeType
  /\ transitionRef.progress = Unit
  /\ transitionRef.to = shoeType

\* C27: for every material label createShoeMaterial of materials.ts returns
\* the roughness and metalness of createStandardMaterial.
C27_SamePresetOnBothPaths ==
  (call.fn = "createShoeMaterial" /\ call.args[1] \in MaterialTypes)
    => LET standard == CreateStandardMaterial(call.args[1], call.args[2])
       IN /\ call.result.roughness = standard.roughness
          /\ call.result.metalness = standard.metalness

====
